---- MODULE Spec2Model ----
(***************************************************************************)
(* Model of mcp_server.py: the search tool search_documents_tool and the   *)
(* fetcher/normalizer fetch_documents it delegates to.                     *)
(*                                                                         *)
(* Decoded JSON values are tagged records:                                 *)
(*   null   [t |-> "null"]                                                 *)
(*   str    [t |-> "str",  s |-> "..."]                                    *)
(*   int    [t |-> "int",  n |-> 7]                                        *)
(*   list   [t |-> "list", items |-> <<v1, ..., vn>>]                      *)
(*   dict   [t |-> "dict", kv |-> <<[k |-> "key", v |-> value], ...>>]     *)
(* A dict keeps its entries in insertion order, as a Python dict does.     *)
(***************************************************************************)
EXTENDS Integers, Sequences, FiniteSets, TLC

VARIABLES
    REPO_SERVER_URL,  \* module-level configuration, read once at import
    pc,               \* position of the (single) tool invocation
    query,            \* argument of search_documents_tool
    limit,            \* argument of search_documents_tool
    httpRequests,     \* requests.get calls issued by the current invocation
    fault,            \* why the current fetch produced no payload, or "none"
    payload,          \* resp.json() of the current invocation
    documents,        \* the local list `documents` of fetch_documents
    fetched,          \* the value fetch_documents returned
    exc,              \* the exception fetch_documents raised, or "none"
    result,           \* the list search_documents_tool returned
    toolOutcome,      \* "none", "returned" or "raised": what the caller saw
    failedBefore      \* an earlier invocation's fetch failed

vars == <<REPO_SERVER_URL, pc, query, limit, httpRequests, fault, payload,
          documents, fetched, exc, result, toolOutcome, failedBefore>>

----------------------------------------------------------------------------
(* JSON values and the Python primitives the code applies to them           *)

Null == [t |-> "null"]
JStr(x) == [t |-> "str", s |-> x]
JInt(x) == [t |-> "int", n |-> x]
JList(xs) == [t |-> "list", items |-> xs]
JDict(pairs) == [t |-> "dict", kv |-> pairs]
KV(key, val) == [k |-> key, v |-> val]

EmptyList == JList(<<>>)
EmptyDict == JDict(<<>>)
\* a field a mapping does not have; the payload before any response
Absent == [t |-> "absent"]
NoPayload == Absent

IsDict(x) == x.t = "dict"
IsList(x) == x.t = "list"

\* `key in d` for a dict d
Has(d, key) == \E i \in 1..Len(d.kv) : d.kv[i].k = key

\* d.get(key, default) for a dict d
Get(d, key, default) ==
    IF Has(d, key)
    THEN d.kv[CHOOSE i \in 1..Len(d.kv) : d.kv[i].k = key].v
    ELSE default

\* d.values() for a dict d, in insertion order
Values(d) == [i \in 1..Len(d.kv) |-> d.kv[i].v]

\* Python truthiness
Truthy(x) ==
    CASE x.t = "null" -> FALSE
      [] x.t = "str"  -> x.s # ""
      [] x.t = "int"  -> x.n # 0
      [] x.t = "list" -> Len(x.items) > 0
      [] x.t = "dict" -> Len(x.kv) > 0

\* Python `a or b`
Or(a, b) == IF Truthy(a) THEN a ELSE b

\* the characters of the strings a payload may hold where the code iterates
Chars(x) ==
    CASE x = ""   -> <<>>
      [] x = "x"  -> <<"x">>
      [] x = "xy" -> <<"x", "y">>

RECURSIVE Repr(_)
RECURSIVE ReprItems(_, _)
RECURSIVE ReprPairs(_, _)

\* repr(x)
Repr(x) ==
    CASE x.t = "null" -> "None"
      [] x.t = "str"  -> "'" \o x.s \o "'"
      [] x.t = "int"  -> ToString(x.n)
      [] x.t = "list" -> "[" \o ReprItems(x.items, 1) \o "]"
      [] x.t = "dict" -> "{" \o ReprPairs(x.kv, 1) \o "}"

ReprItems(xs, i) ==
    IF i > Len(xs) THEN ""
    ELSE Repr(xs[i]) \o (IF i < Len(xs) THEN ", " ELSE "") \o ReprItems(xs, i + 1)

ReprPairs(ps, i) ==
    IF i > Len(ps) THEN ""
    ELSE "'" \o ps[i].k \o "': " \o Repr(ps[i].v)
         \o (IF i < Len(ps) THEN ", " ELSE "") \o ReprPairs(ps, i + 1)

\* str(x): a str is itself, everything else prints as its repr
Str(x) == IF x.t = "str" THEN x.s ELSE Repr(x)

RECURSIVE Join(_, _)
\* sep.join(strs) for a sequence of strings
Join(sep, strs) ==
    IF Len(strs) = 0 THEN ""
    ELSE IF Len(strs) = 1 THEN strs[1]
    ELSE strs[1] \o sep \o Join(sep, Tail(strs))

NotNone(x) == x.t # "null"

\* the comprehension without its `if s is not None`
TextLines_keep_none(raw_text) ==
    [i \in 1..Len(raw_text.items) |-> Str(raw_text.items[i])]

\* [str(s) for s in raw_text if s is not None]
TextLines(raw_text) ==
    LET kept == SelectSeq(raw_text.items, NotNone)
    IN [i \in 1..Len(kept) |-> Str(kept[i])]

\* "\n".join([str(s) for s in raw_text if s is not None])
JoinText(raw_text) == JStr(Join("\n", TextLines(raw_text)))

\* seq[:n]
SliceTo(seq, n) ==
    IF n >= 0
    THEN SubSeq(seq, 1, IF n < Len(seq) THEN n ELSE Len(seq))
    ELSE SubSeq(seq, 1, IF Len(seq) + n > 0 THEN Len(seq) + n ELSE 0)

----------------------------------------------------------------------------
(* fetch_documents, Case A: {"result": {service: {"documents": [...]}}}     *)

Acc(e, docs) == [exc |-> e, documents |-> docs]

\* `for d in docs`: what the iteration yields, or the TypeError it raises
Iterate(docs) ==
    CASE docs.t = "list" -> [exc |-> "none", items |-> docs.items]
      [] docs.t = "dict" -> [exc |-> "none",
                             items |-> [i \in 1..Len(docs.kv) |-> JStr(docs.kv[i].k)]]
      [] docs.t = "str"  -> [exc |-> "none",
                             items |-> [i \in 1..Len(Chars(docs.s)) |-> JStr(Chars(docs.s)[i])]]
      [] OTHER           -> [exc |-> "TypeError", items |-> <<>>]

\* doc_data of line 51
doc_data_A(d) ==
    IF IsDict(d) THEN Or(Get(d, "document", Null), EmptyDict) ELSE EmptyDict

\* content of lines 52-56 (doc_data is a dict here)
content_A(doc_data) ==
    LET raw_text == Get(doc_data, "text", EmptyList)
    IN IF IsList(raw_text) THEN JoinText(raw_text)
       ELSE JStr(Str(Or(raw_text, JStr(""))))

\* doc_item of lines 57-67 (d and doc_data are dicts here)
doc_item_A(d, doc_data) ==
    JDict(<<
        KV("id", Or(Or(Get(d, "id", Null), Get(doc_data, "id", Null)), JStr(""))),
        KV("title", Or(Get(doc_data, "title", Null), JStr(""))),
        KV("url", Or(Get(doc_data, "url", Null), JStr(""))),
        KV("content_type", Or(Get(doc_data, "content_type", Null), JStr("text/markdown"))),
        KV("content", content_A(doc_data)),
        KV("meta", JDict(<<KV("position", Get(d, "position", Null)),
                           KV("fieldCount", Get(d, "fieldCount", Null))>>))
    >>)

\* one pass of the loop body, lines 51-68: the record appended, or the
\* AttributeError of calling .get on a value that is no dict
body_A(d) ==
    LET doc_data == doc_data_A(d)
    IN IF ~IsDict(doc_data) THEN [exc |-> "AttributeError", item |-> Null]  \* line 52
       ELSE IF ~IsDict(d) THEN [exc |-> "AttributeError", item |-> Null]    \* line 58
       ELSE [exc |-> "none", item |-> doc_item_A(d, doc_data)]

RECURSIVE docs_loop_A(_, _, _)
\* the inner loop, lines 50-68, from the i-th element on
docs_loop_A(items, i, acc) ==
    IF acc.exc # "none" \/ i > Len(items) THEN acc
    ELSE LET b == body_A(items[i])
         IN IF b.exc # "none" THEN Acc(b.exc, acc.documents)
            ELSE docs_loop_A(items, i + 1, Acc("none", Append(acc.documents, b.item)))

\* one pass of the outer loop body, lines 47-68
service_A(svc_val, acc) ==
    IF ~IsDict(svc_val) THEN acc
    ELSE LET docs == Or(Get(svc_val, "documents", EmptyList), EmptyList)
             it == Iterate(docs)
         IN IF it.exc # "none" THEN Acc(it.exc, acc.documents)
            ELSE docs_loop_A(it.items, 1, acc)

RECURSIVE services_loop_A(_, _, _)
\* the outer loop, lines 46-68, from the i-th service on
services_loop_A(svcs, i, acc) ==
    IF acc.exc # "none" \/ i > Len(svcs) THEN acc
    ELSE services_loop_A(svcs, i + 1, service_A(svcs[i], acc))

case_A(p) == services_loop_A(Values(Get(p, "result", Null)), 1, Acc("none", <<>>))

----------------------------------------------------------------------------
(* fetch_documents, Case B: {"documents": [...]}                            *)

\* doc_data of line 75
doc_data_B(d) == Or(Get(d, "document", Null), d)

\* raw_text of line 76
raw_text_B(doc_data) ==
    IF IsDict(doc_data) THEN Get(doc_data, "text", EmptyList) ELSE EmptyList

\* content of lines 77-80
content_B(doc_data) ==
    LET raw_text == raw_text_B(doc_data)
    IN IF IsList(raw_text) THEN JoinText(raw_text)
       ELSE JStr(Str(IF IsDict(doc_data)
                     THEN Or(raw_text, Get(doc_data, "content", JStr("")))
                     ELSE JStr("")))

\* doc_item of lines 81-88
doc_item_B(d) ==
    LET doc_data == doc_data_B(d)
        isd == IsDict(doc_data)
    IN JDict(<<
        KV("id", IF isd THEN Or(Get(d, "id", Null), Get(doc_data, "id", JStr("")))
                 ELSE JStr("")),
        KV("title", Or(IF isd THEN Get(doc_data, "title", Null) ELSE doc_data, JStr(""))),
        KV("url", IF isd THEN Get(doc_data, "url", Null) ELSE JStr("")),
        KV("content_type", IF isd THEN Get(doc_data, "content_type", Null)
                           ELSE JStr("text/markdown")),
        KV("content", content_B(doc_data)),
        KV("meta", JDict(<<KV("position", Get(d, "position", Null)),
                           KV("fieldCount", Get(d, "fieldCount", Null))>>))
    >>)

RECURSIVE docs_loop_B(_, _, _)
\* the loop of lines 72-89, from the i-th element on
docs_loop_B(items, i, acc) ==
    IF i > Len(items) THEN acc
    ELSE IF ~IsDict(items[i]) THEN docs_loop_B(items, i + 1, acc)
    ELSE docs_loop_B(items, i + 1,
                     Acc("none", Append(acc.documents, doc_item_B(items[i]))))

case_B(p) == docs_loop_B(Get(p, "documents", Null).items, 1, Acc("none", <<>>))

----------------------------------------------------------------------------
(* fetch_documents, Case C: [ {...}, {...} ]                                *)

\* content of lines 97-105
content_C(item) ==
    IF Has(item, "content") /\ NotNone(Get(item, "content", Null))
    THEN JStr(Str(Get(item, "content", Null)))
    ELSE IF Has(item, "text") /\ NotNone(Get(item, "text", Null))
    THEN LET raw_text == Get(item, "text", Null)
         IN IF IsList(raw_text) THEN JoinText(raw_text) ELSE JStr(Str(raw_text))
    ELSE JStr("")

\* {k: item.get(k) for k in ("position", "fieldCount") if k in item}
meta_C(item) ==
    JDict((IF Has(item, "position")
           THEN <<KV("position", Get(item, "position", Null))>> ELSE <<>>)
          \o (IF Has(item, "fieldCount")
              THEN <<KV("fieldCount", Get(item, "fieldCount", Null))>> ELSE <<>>))

\* doc_item of lines 106-113
doc_item_C(item) ==
    JDict(<<
        KV("id", Get(item, "id", JStr(""))),
        KV("title", Get(item, "title", JStr(""))),
        KV("url", Get(item, "url", JStr(""))),
        KV("content_type", Get(item, "content_type", JStr("text/markdown"))),
        KV("content", content_C(item)),
        KV("meta", meta_C(item))
    >>)

RECURSIVE docs_loop_C(_, _, _)
\* the loop of lines 93-114, from the i-th element on
docs_loop_C(items, i, acc) ==
    IF i > Len(items) THEN acc
    ELSE IF ~IsDict(items[i]) THEN docs_loop_C(items, i + 1, acc)
    ELSE docs_loop_C(items, i + 1,
                     Acc("none", Append(acc.documents, doc_item_C(items[i]))))

case_C(p) == docs_loop_C(p.items, 1, Acc("none", <<>>))

----------------------------------------------------------------------------
(* fetch_documents, lines 42-120: shape dispatch and truncation              *)

IsCaseA(p) == IsDict(p) /\ Has(p, "result") /\ IsDict(Get(p, "result", Null))
IsCaseB(p) == IsDict(p) /\ Has(p, "documents") /\ IsList(Get(p, "documents", Null))
IsCaseC(p) == IsList(p)

\* an unexpected or empty payload raising instead of degrading to []
extract_raise_unrecognized(p) ==
    IF IsCaseA(p) THEN case_A(p)
    ELSE IF IsCaseB(p) THEN case_B(p)
    ELSE IF IsCaseC(p) /\ Len(p.items) > 0 THEN case_C(p)
    ELSE Acc("ValueError", <<>>)

\* the list `documents` when line 119 is reached, or when a loop raised
extract(p) ==
    IF IsCaseA(p) THEN case_A(p)
    ELSE IF IsCaseB(p) THEN case_B(p)
    ELSE IF IsCaseC(p) THEN case_C(p)
    ELSE Acc("none", <<>>)

\* `return documents` without the slice
truncate_none(docs, n) == docs

\* `return documents[:limit]`
truncate(docs, n) == SliceTo(docs, n)

----------------------------------------------------------------------------
(* search_documents_tool, line 135: json.loads(json.dumps(docs))            *)

Tok(x) == [tok |-> x]

RECURSIVE json_dumps(_)
RECURSIVE dump_items(_, _)
RECURSIVE dump_pairs(_, _)

\* json.dumps(x), as the sequence of JSON tokens it writes
json_dumps(x) ==
    CASE x.t = "null" -> <<Tok("null")>>
      [] x.t = "str"  -> <<[tok |-> "string", s |-> x.s]>>
      [] x.t = "int"  -> <<[tok |-> "number", n |-> x.n]>>
      [] x.t = "list" -> <<Tok("[")>> \o dump_items(x.items, 1) \o <<Tok("]")>>
      [] x.t = "dict" -> <<Tok("{")>> \o dump_pairs(x.kv, 1) \o <<Tok("}")>>

dump_items(xs, i) ==
    IF i > Len(xs) THEN <<>>
    ELSE json_dumps(xs[i]) \o (IF i < Len(xs) THEN <<Tok(",")>> ELSE <<>>)
         \o dump_items(xs, i + 1)

dump_pairs(ps, i) ==
    IF i > Len(ps) THEN <<>>
    ELSE <<[tok |-> "string", s |-> ps[i].k], Tok(":")>> \o json_dumps(ps[i].v)
         \o (IF i < Len(ps) THEN <<Tok(",")>> ELSE <<>>)
         \o dump_pairs(ps, i + 1)

\* the element of a one-element set (binds a parsed value once, where it is
\* used twice)
Only(S) == CHOOSE x \in S : TRUE

RECURSIVE parse_value(_, _)
RECURSIVE parse_items(_, _, _)
RECURSIVE parse_pairs(_, _, _)

\* the value that starts at token i, and the index of the token after it
parse_value(toks, i) ==
    CASE toks[i].tok = "null"   -> [v |-> Null, next |-> i + 1]
      [] toks[i].tok = "string" -> [v |-> JStr(toks[i].s), next |-> i + 1]
      [] toks[i].tok = "number" -> [v |-> JInt(toks[i].n), next |-> i + 1]
      [] toks[i].tok = "["      -> parse_items(toks, i + 1, <<>>)
      [] toks[i].tok = "{"      -> parse_pairs(toks, i + 1, <<>>)

parse_items(toks, i, acc) ==
    IF toks[i].tok = "]" THEN [v |-> JList(acc), next |-> i + 1]
    ELSE IF toks[i].tok = "," THEN parse_items(toks, i + 1, acc)
    ELSE Only({parse_items(toks, r.next, Append(acc, r.v)) : r \in {parse_value(toks, i)}})

parse_pairs(toks, i, acc) ==
    IF toks[i].tok = "}" THEN [v |-> JDict(acc), next |-> i + 1]
    ELSE IF toks[i].tok = "," THEN parse_pairs(toks, i + 1, acc)
    ELSE Only({parse_pairs(toks, r.next, Append(acc, KV(toks[i].s, r.v))) :
                  r \in {parse_value(toks, i + 2)}})

\* json.loads(text)
json_loads(toks) == parse_value(toks, 1).v

\* the tool without its try/except: the exception reaches the caller
tool_result_propagate(e, docs) ==
    IF e # "none"
    THEN [outcome |-> "raised", value |-> <<>>]
    ELSE [outcome |-> "returned", value |-> json_loads(json_dumps(JList(docs))).items]

\* what search_documents_tool hands its caller, lines 133-138: the
\* round-tripped list, or [] when fetch_documents raised
tool_result(e, docs) ==
    IF e # "none"
    THEN [outcome |-> "returned", value |-> <<>>]
    ELSE [outcome |-> "returned", value |-> json_loads(json_dumps(JList(docs))).items]

----------------------------------------------------------------------------
(* Module import, line 10                                                   *)

IsSpace(c) == c = " "

RECURSIVE lstrip(_)
lstrip(cs) == IF Len(cs) > 0 /\ IsSpace(cs[1]) THEN lstrip(Tail(cs)) ELSE cs

RECURSIVE rstrip(_)
rstrip(cs) ==
    IF Len(cs) > 0 /\ IsSpace(cs[Len(cs)]) THEN rstrip(SubSeq(cs, 1, Len(cs) - 1)) ELSE cs

\* str.strip(), on a string given as its characters
strip(cs) == rstrip(lstrip(cs))

\* os.environ.get("REPO_SERVER_URL", ""): unset reads as ""
EnvValues == {<<>>, <<" ">>, <<"h">>, <<" ", "h", " ">>}

----------------------------------------------------------------------------
(* The inputs: tool arguments and the bodies the repo server may answer     *)

MaxDocs == 2    \* longest `documents` list in the multi-document payloads
MaxLimit == 5   \* largest `limit` argument below the default
DefaultLimit == 20   \* `limit: int = 20`

Queries == {"q"}
Limits == ((-1)..MaxLimit) \cup {DefaultLimit}

SeqsUpTo(S, n) == UNION {[1..k -> S] : k \in 0..n}

Opt(key, val) == IF val = Absent THEN <<>> ELSE <<KV(key, val)>>

\* a document source: any subset of the six fields the code reads
MkSource(id, title, url, ctype, text, content) ==
    JDict(Opt("id", id) \o Opt("title", title) \o Opt("url", url)
          \o Opt("content_type", ctype) \o Opt("text", text) \o Opt("content", content))

IdVals == {Absent, JStr("d1")}
TitleVals == {Absent, JStr("T")}
UrlVals == {Absent, JStr("u")}
TypeVals == {Absent, JStr("text/html")}
TextVals == {Absent, Null, JStr("t"), EmptyList,
             JList(<<JStr("L1"), JStr("L2")>>),
             JList(<<JStr("a"), Null, JStr("b")>>),
             JList(<<Null>>),
             JList(<<JInt(1), JStr("z")>>)}
ContentVals == {Absent, Null, JStr("hello")}

Sources ==
    {MkSource(id, title, url, ctype, text, content) :
        id \in IdVals, title \in TitleVals, url \in UrlVals,
        ctype \in TypeVals, text \in TextVals, content \in ContentVals}

SvcNames == <<"svcA", "svcB">>

\* the result mapping holding the given service values, in order
MkResult(svc_vals) ==
    JDict([i \in 1..Len(svc_vals) |-> KV(SvcNames[i], svc_vals[i])])

MkService(entries) == JDict(<<KV("documents", JList(entries))>>)

\* the four encodings of one document source
EncService(S) ==
    JDict(<<KV("result", MkResult(<<MkService(<<JDict(<<KV("document", S)>>)>>)>>))>>)
EncFlatNested(S) == JDict(<<KV("documents", JList(<<JDict(<<KV("document", S)>>)>>))>>)
EncFlat(S) == JDict(<<KV("documents", JList(<<S>>))>>)
EncBare(S) == JList(<<S>>)

SingleDocPayloads ==
    {EncService(S) : S \in Sources} \cup {EncFlatNested(S) : S \in Sources}
    \cup {EncFlat(S) : S \in Sources} \cup {EncBare(S) : S \in Sources}

\* the scenarios the documentation works through
ScenarioFlat ==
    JDict(<<KV("documents", JList(<<
        JDict(<<KV("document", MkSource(JStr("d1"), JStr("T"), JStr("u"), Absent,
                                        JList(<<JStr("L1"), JStr("L2")>>), Absent)),
                KV("position", JInt(1))>>)>>))>>)
ScenarioService ==
    JDict(<<KV("result", MkResult(<<MkService(<<
        JDict(<<KV("id", JStr("x")),
                KV("document", JDict(<<KV("title", JStr("A"))>>))>>)>>)>>))>>)
ScenarioBare == JList(<<JDict(<<KV("id", JStr("1")), KV("content", JStr("hello"))>>)>>)
ScenarioScalar == JStr("not a dict or list")

\* two distinguishable documents, bare and wrapped, for the ordering cases
Doc1 == JDict(<<KV("id", JStr("1")), KV("title", JStr("A"))>>)
Doc2 == JDict(<<KV("id", JStr("2")), KV("title", JStr("B")), KV("position", JInt(2))>>)
Wrap1 == JDict(<<KV("id", JStr("1")), KV("document", JDict(<<KV("title", JStr("A"))>>))>>)
Wrap2 == JDict(<<KV("position", JInt(2)),
                 KV("document", JDict(<<KV("id", JStr("2")), KV("url", JStr("u2"))>>))>>)

\* service values the code does not expect
OddServices ==
    {JStr("s"), EmptyDict,
     JDict(<<KV("documents", Null)>>),
     JDict(<<KV("documents", JStr("xy"))>>),
     JDict(<<KV("documents", JInt(7))>>),
     JDict(<<KV("documents", JDict(<<KV("k", JInt(1))>>))>>),
     MkService(<<JStr("x")>>),
     MkService(<<Wrap1, Null>>),
     MkService(<<Wrap1, JInt(3)>>),
     MkService(<<JDict(<<KV("document", JStr("x"))>>)>>),
     MkService(<<JDict(<<KV("document", Null)>>)>>)}

ServiceVals == {MkService(es) : es \in SeqsUpTo({Wrap1, Wrap2}, MaxDocs)} \cup OddServices

ServicePayloads ==
    {JDict(<<KV("result", MkResult(svcs))>>) : svcs \in SeqsUpTo(ServiceVals, Len(SvcNames))}

ListItems == {Doc1, Doc2, JStr("x")}

FlatPayloads ==
    {JDict(<<KV("documents", JList(es))>>) : es \in SeqsUpTo(ListItems, MaxDocs)}
    \cup {JDict(<<KV("documents", JList(<<JDict(<<KV("document", JStr("x"))>>)>>))>>),
          JDict(<<KV("result", JStr("r")), KV("documents", JList(<<Doc1>>))>>)}

BarePayloads == {JList(es) : es \in SeqsUpTo(ListItems, MaxDocs)}

\* both keys present: Case A wins
BothPayloads ==
    {JDict(<<KV("result", MkResult(<<MkService(<<Wrap1>>)>>)),
             KV("documents", JList(<<Doc2>>))>>)}

UnrecognizedPayloads ==
    {ScenarioScalar, Null, JInt(5), EmptyDict,
     JDict(<<KV("other", JInt(1))>>),
     JDict(<<KV("result", JStr("r"))>>),
     JDict(<<KV("result", JList(<<Doc1>>))>>),
     JDict(<<KV("documents", JStr("d"))>>),
     JDict(<<KV("documents", JDict(<<KV("a", Doc1)>>))>>),
     JDict(<<KV("result", Null), KV("documents", JInt(1))>>)}

Payloads ==
    SingleDocPayloads \cup {ScenarioFlat, ScenarioService, ScenarioBare}
    \cup ServicePayloads \cup FlatPayloads \cup BarePayloads \cup BothPayloads
    \cup UnrecognizedPayloads

\* what makes the request of lines 35-37 raise
Faults == {"ConnectionError", "HTTPError", "JSONDecodeError"}

----------------------------------------------------------------------------
(* The state machine                                                        *)

Init ==
    /\ \E e \in EnvValues : REPO_SERVER_URL = strip(e)
    /\ pc = "idle"
    /\ query = ""
    /\ limit = 0
    /\ httpRequests = 0
    /\ fault = "none"
    /\ payload = NoPayload
    /\ documents = <<>>
    /\ fetched = <<>>
    /\ exc = "none"
    /\ result = <<>>
    /\ toolOutcome = "none"
    /\ failedBefore = FALSE

\* search_documents_tool is invoked, lines 127-134
tool_call(q, l) ==
    /\ pc \in {"idle", "done"}
    /\ pc' = "fetch"
    /\ query' = q
    /\ limit' = l
    /\ httpRequests' = 0
    /\ fault' = "none"
    /\ payload' = NoPayload
    /\ documents' = <<>>
    /\ fetched' = <<>>
    /\ exc' = "none"
    /\ result' = <<>>
    /\ toolOutcome' = "none"
    /\ failedBefore' = (failedBefore \/ fault # "none")
    /\ UNCHANGED REPO_SERVER_URL

\* fetch_documents, lines 29-31: no endpoint, no request
fetch_unset ==
    /\ pc = "fetch"
    /\ REPO_SERVER_URL = <<>>
    /\ fault' = "unset"
    /\ fetched' = <<>>
    /\ pc' = "fetched"
    /\ UNCHANGED <<REPO_SERVER_URL, query, limit, httpRequests, payload, documents,
                   exc, result, toolOutcome, failedBefore>>

\* the request sent a second time
requests_after_get_retry(n) == n + 2

\* the number of requests.get calls after line 35
requests_after_get(n) == n + 1

\* fetch_documents, line 35: the request is sent
http_get ==
    /\ pc = "fetch"
    /\ REPO_SERVER_URL # <<>>
    /\ httpRequests' = requests_after_get(httpRequests)
    /\ pc' = "awaiting"
    /\ UNCHANGED <<REPO_SERVER_URL, query, limit, fault, payload, documents, fetched,
                   exc, result, toolOutcome, failedBefore>>

\* fetch_documents, lines 35-40: the request, raise_for_status or resp.json() raises
http_fail(f) ==
    /\ pc = "awaiting"
    /\ fault' = f
    /\ fetched' = <<>>
    /\ pc' = "fetched"
    /\ UNCHANGED <<REPO_SERVER_URL, query, limit, httpRequests, payload, documents,
                   exc, result, toolOutcome, failedBefore>>

\* fetch_documents, lines 37 and 42-120: the body decodes to p and is normalized
http_ok(p) ==
    /\ pc = "awaiting"
    /\ payload' = p
    /\ LET r == extract(p)
       IN /\ documents' = r.documents
          /\ exc' = r.exc
          /\ fetched' = IF r.exc = "none" THEN truncate(r.documents, limit) ELSE <<>>
    /\ pc' = "fetched"
    /\ UNCHANGED <<REPO_SERVER_URL, query, limit, httpRequests, fault, result,
                   toolOutcome, failedBefore>>

\* search_documents_tool, lines 135-138
tool_return ==
    /\ pc = "fetched"
    /\ LET r == tool_result(exc, fetched)
       IN /\ toolOutcome' = r.outcome
          /\ result' = r.value
    /\ pc' = "done"
    /\ UNCHANGED <<REPO_SERVER_URL, query, limit, httpRequests, fault, payload,
                   documents, fetched, exc, failedBefore>>

Next ==
    \/ \E q \in Queries, l \in Limits : tool_call(q, l)
    \/ fetch_unset
    \/ http_get
    \/ \E f \in Faults : http_fail(f)
    \/ \E p \in Payloads : http_ok(p)
    \/ tool_return

Spec == Init /\ [][Next]_vars

\* the bodies of the fair runs: every service-result body built from the
\* unexpected service values and two well-formed ones, and the scenarios
FairPayloads ==
    {JDict(<<KV("result", MkResult(svcs))>>) :
        svcs \in SeqsUpTo(OddServices \cup {MkService(<<Wrap1>>), MkService(<<Wrap1, Wrap2>>)},
                          Len(SvcNames))}
    \cup {ScenarioFlat, ScenarioService, ScenarioBare, ScenarioScalar}

\* the same machine answering with those bodies only
NextFair ==
    \/ \E q \in Queries, l \in Limits : tool_call(q, l)
    \/ fetch_unset
    \/ http_get
    \/ \E f \in Faults : http_fail(f)
    \/ \E p \in FairPayloads : http_ok(p)
    \/ tool_return

\* requests.get carries timeout=REQUEST_TIMEOUT, so a request sent is answered
\* or fails; everything else is straight-line synchronous code
FairSpec ==
    /\ Init /\ [][NextFair]_vars
    /\ WF_vars(fetch_unset)
    /\ WF_vars(http_get)
    /\ WF_vars((\E f \in Faults : http_fail(f)) \/ (\E p \in FairPayloads : http_ok(p)))
    /\ WF_vars(tool_return)

----------------------------------------------------------------------------
(* Vocabulary of the properties                                             *)

Min(a, b) == IF a < b THEN a ELSE b

\* fetch_documents got a decoded body and ran its normalization to the end
\* or to an exception
Normalized == pc \in {"fetched", "done"} /\ fault = "none"

\* the payload is one of the three shapes the documentation names
Recognized(p) ==
    \/ IsDict(p) /\ IsDict(Get(p, "result", Null))
    \/ IsDict(p) /\ IsList(Get(p, "documents", Null))
    \/ IsList(p)

\* no recognized shape: a scalar, null, or a mapping whose `result` is no
\* mapping and whose `documents` is no sequence (absent included)
Unrecognized(p) ==
    \/ p.t \in {"str", "int", "null"}
    \/ IsDict(p) /\ ~IsDict(Get(p, "result", Null)) /\ ~IsList(Get(p, "documents", Null))

RECURSIVE Flatten(_)
Flatten(seqs) == IF seqs = <<>> THEN <<>> ELSE Head(seqs) \o Flatten(Tail(seqs))

\* the document entries of one service value: its `documents` when that is a
\* list, nothing otherwise
ServiceEntries(svc) ==
    IF IsDict(svc) /\ IsList(Get(svc, "documents", EmptyList))
    THEN Get(svc, "documents", EmptyList).items
    ELSE <<>>

\* the document entries of a payload in discovery order: services in the
\* insertion order of `result`, entries in source order
Discovered(p) ==
    IF IsDict(p) /\ IsDict(Get(p, "result", Null))
    THEN LET svcs == Values(Get(p, "result", Null))
         IN Flatten([i \in 1..Len(svcs) |-> ServiceEntries(svcs[i])])
    ELSE IF IsDict(p) /\ IsList(Get(p, "documents", Null))
    THEN SelectSeq(Get(p, "documents", Null).items, IsDict)
    ELSE IF IsList(p) THEN SelectSeq(p.items, IsDict)
    ELSE <<>>

\* the record the code builds for one entry of a payload of p's shape
RecordOf(p, d) ==
    IF IsDict(p) /\ IsDict(Get(p, "result", Null)) THEN doc_item_A(d, doc_data_A(d))
    ELSE IF IsDict(p) THEN doc_item_B(d)
    ELSE doc_item_C(d)

\* the payload encodes exactly one document source, in one of the four ways
SingleDoc == payload \in SingleDocPayloads

\* the document source a single-document payload encodes
SoleSource ==
    LET d == Discovered(payload)[1]
    IN IF Has(d, "document") THEN Get(d, "document", Null) ELSE d

\* a field of a record or of a source, Absent when it has none
Field(rec, key) == Get(rec, key, Absent)

\* equal records, an absent meta entry counting as a null one
SameRecord(a, b) ==
    /\ \A key \in {"id", "title", "url", "content_type", "content"} :
           Field(a, key) = Field(b, key)
    /\ \A key \in {"position", "fieldCount"} :
           Get(Field(a, "meta"), key, Null) = Get(Field(b, "meta"), key, Null)

\* the non-null elements of a text sequence, stringified and joined by newlines
RECURSIVE JoinedUpTo(_, _)
JoinedUpTo(kept, n) ==
    IF n = 0 THEN ""
    ELSE IF n = 1 THEN Str(kept[1])
    ELSE JoinedUpTo(kept, n - 1) \o "\n" \o Str(kept[n])

NonNullJoined(items) ==
    LET kept == SelectSeq(items, LAMBDA x : x # Null)
    IN JoinedUpTo(kept, Len(kept))

----------------------------------------------------------------------------
(* Properties                                                               *)

\* C1: for every decoded payload the normalization inside fetch_documents
\* never raises; a service whose `documents` is no list, or holds entries that
\* are no mappings, still yields a list.
C1_NormalizerNeverRaises ==
    Normalized => exc = "none"

\* C2: for every recognized payload and every non-negative limit N, what
\* fetch_documents returns is exactly the first min(N, k) of the k records
\* extracted in discovery order: never more than N, none for N = 0, nothing
\* reordered or duplicated.
C2_TruncatedPrefixInOrder ==
    (Normalized /\ exc = "none" /\ Recognized(payload) /\ limit >= 0) =>
        LET found == Discovered(payload)
            m == Min(limit, Len(found))
        IN /\ Len(fetched) = m
           /\ Len(fetched) <= limit
           /\ \A i \in 1..m : fetched[i] = RecordOf(payload, found[i])

C2_Witness ==
    /\ pc = "fetched"
    /\ fault = "none"
    /\ IsCaseA(payload)
    /\ exc = "none"
    /\ limit = 3
    /\ Len(documents) = 4
    /\ Len(fetched) = 3
    /\ Field(fetched[2], "id") # Field(fetched[3], "id")

\* C3: shape-invariance: one document source encoded as a service-result
\* payload, as a flat-documents payload (nested or direct) or as a bare list
\* yields identical canonical records.
C3_ShapeInvariance ==
    (Normalized /\ SingleDoc /\ limit >= 1) =>
        /\ exc = "none"
        /\ Len(fetched) = 1
        /\ \A other \in {EncService(SoleSource), EncFlatNested(SoleSource),
                         EncFlat(SoleSource), EncBare(SoleSource)} :
               /\ extract(other).exc = "none"
               /\ Len(extract(other).documents) = 1
               /\ SameRecord(fetched[1], extract(other).documents[1])

\* C4: in every recognized shape a document whose source lacks `url` and
\* `content_type` yields url "" and content_type "text/markdown"; the
\* flat-documents scenario with limit 20 yields one record whose content_type
\* is "text/markdown".
C4_DefaultUrlAndType ==
    /\ (Normalized /\ SingleDoc /\ limit >= 1
        /\ ~Has(SoleSource, "url") /\ ~Has(SoleSource, "content_type")) =>
           /\ Len(fetched) = 1
           /\ Field(fetched[1], "url") = JStr("")
           /\ Field(fetched[1], "content_type") = JStr("text/markdown")
    /\ (Normalized /\ payload = ScenarioFlat /\ limit = DefaultLimit) =>
           /\ Len(fetched) = 1
           /\ Field(fetched[1], "content_type") = JStr("text/markdown")

\* C5: in every recognized shape, when the source's `content` is present and
\* non-null the record's content is that value stringified, whether or not
\* the source also has `text`.
C5_ContentFieldWins ==
    (Normalized /\ SingleDoc /\ limit >= 1
     /\ Field(SoleSource, "content") \notin {Absent, Null}) =>
        /\ Len(fetched) = 1
        /\ Field(fetched[1], "content") = JStr(Str(Field(SoleSource, "content")))

\* C6: in every recognized shape, when the source has no `content` and its
\* `text` is a sequence, the record's content is the string made of the
\* non-null elements of `text`, stringified, in order, joined by newlines:
\* ["a", null, "b"] gives "a\nb", an empty or all-null sequence gives "".
C6_TextJoinedWithoutNulls ==
    (Normalized /\ SingleDoc /\ limit >= 1
     /\ ~Has(SoleSource, "content") /\ Field(SoleSource, "text").t = "list") =>
        LET text == Field(SoleSource, "text")
        IN /\ exc = "none"
           /\ Len(fetched) = 1
           /\ Field(fetched[1], "content") = JStr(NonNullJoined(text.items))
           /\ (text = JList(<<JStr("a"), Null, JStr("b")>>)
                  => Field(fetched[1], "content") = JStr("a\nb"))
           /\ ((\A i \in 1..Len(text.items) : text.items[i] = Null)
                  => Field(fetched[1], "content") = JStr(""))

C6_Witness ==
    /\ pc = "fetched"
    /\ SingleDoc
    /\ ~Has(SoleSource, "content")
    /\ Field(SoleSource, "text") = JList(<<JStr("a"), Null, JStr("b")>>)
    /\ IsCaseA(payload)
    /\ Len(fetched) = 1
    /\ Field(fetched[1], "content") = JStr("a\nb")

\* C7: for every payload of no recognized shape, and for an empty sequence,
\* fetch_documents returns an empty list for every limit and raises nothing.
C7_UnrecognizedYieldsEmpty ==
    (Normalized /\ (Unrecognized(payload) \/ payload = EmptyList)) =>
        /\ exc = "none"
        /\ fetched = <<>>

C7_Witness ==
    /\ pc = "fetched"
    /\ fault = "none"
    /\ payload = ScenarioScalar
    /\ limit = 5
    /\ exc = "none"
    /\ fetched = <<>>

\* C8: every invocation of search_documents_tool ends by returning a list; an
\* exception raised anywhere in the pipeline never reaches the caller, the
\* tool returns [] then, and nothing of a partially built result.
C8_ToolSafety ==
    /\ toolOutcome # "raised"
    /\ pc = "done" =>
           /\ toolOutcome = "returned"
           /\ exc # "none" => result = <<>>
           /\ exc = "none" => Len(result) = Len(fetched)

C8_ToolAlwaysReturnsList ==
    /\ []C8_ToolSafety
    /\ (pc = "fetch") ~> (pc = "done")

C8_Witness ==
    /\ pc = "done"
    /\ exc = "AttributeError"
    /\ Len(documents) > 0
    /\ toolOutcome = "returned"
    /\ result = <<>>

\* C9: an invocation of fetch_documents issues no HTTP request when the
\* endpoint is unset and exactly one otherwise, with no retry; when the
\* endpoint is unset or the request fails it returns [] without raising, and
\* the failure leaves later invocations unaffected.
C9_OneRequestNoRetry ==
    /\ httpRequests <= 1
    /\ REPO_SERVER_URL = <<>> => httpRequests = 0
    /\ pc \in {"fetched", "done"} =>
           /\ httpRequests = (IF REPO_SERVER_URL = <<>> THEN 0 ELSE 1)
           /\ REPO_SERVER_URL = <<>> => fault = "unset"
           /\ fault # "none" =>
                  /\ fetched = <<>>
                  /\ exc = "none"
                  /\ pc = "done" => (toolOutcome = "returned" /\ result = <<>>)
           /\ (failedBefore /\ fault = "none" /\ exc = "none" /\ limit >= 0) =>
                  Len(fetched) = Min(limit, Len(Discovered(payload)))

C9_Witness ==
    /\ failedBefore
    /\ pc = "done"
    /\ fault = "none"
    /\ httpRequests = 1
    /\ Len(result) = 2

\* C10: in the service-result shape a record's title is the nested document's
\* `title` when present, otherwise the nested document's `url`, and the empty
\* string only when both are absent.
C10_ServiceTitleFallsBackToUrl ==
    (Normalized /\ SingleDoc /\ limit >= 1 /\ payload = EncService(SoleSource)) =>
        /\ Len(fetched) = 1
        /\ Field(fetched[1], "title") =
               (IF Has(SoleSource, "title") THEN Field(SoleSource, "title")
                ELSE IF Has(SoleSource, "url") THEN Field(SoleSource, "url")
                ELSE JStr(""))

====
